---- MODULE Spec2Model ----
(***************************************************************************)
(* CoreImpl of the Snapdragon display manager core (sdm/libs/core):        *)
(* the lifecycle (Init, Deinit), the display factory (both CreateDisplay   *)
(* overloads, DestroyDisplay) and the pass-through queries, every one of   *)
(* them run under the instance lock locker_ by the calling thread.         *)
(*                                                                         *)
(* A call is a sequence of steps of the calling thread: Call (the caller   *)
(* picks the operation and its arguments), Acquire (SCOPE_LOCK), the       *)
(* statements of the body, and Unlock (the scope ends: the lock is         *)
(* released and the value in ret is what the caller receives).             *)
(***************************************************************************)
EXTENDS Integers, Sequences, FiniteSets, TLC

\* ------------------------------------------------------------- bounds
MaxThreads == 2
MaxProviders == 2
MaxObjs == 1
MaxCalls == 2

Threads == 1..MaxThreads
NoThread == 0
NULL == 0

\* ------------------------------------------------------------- values
kErrorNone == "kErrorNone"
kErrorUndefined == "kErrorUndefined"
kErrorParameters == "kErrorParameters"
kErrorMemory == "kErrorMemory"
kErrorResources == "kErrorResources"

\* The errors a collaborator may hand back (any DisplayError but kErrorNone).
FailErrors == {kErrorResources, kErrorParameters}

kBuiltIn == "kBuiltIn"
kPluggable == "kPluggable"
kVirtual == "kVirtual"
kDisplayTypeMax == "kDisplayTypeMax"
Variants == {kBuiltIn, kPluggable, kVirtual}
DisplayTypes == Variants \cup {kDisplayTypeMax}

DisplayIds == {1, 2}

\* HWDisplaysInfo values: display id -> display type.
NoDisplays == [i \in {} |-> kBuiltIn]
PanelAndUnknown == [i \in {1, 2} |-> IF i = 1 THEN kBuiltIn ELSE kDisplayTypeMax]
Snapshots == {NoDisplays, PanelAndUnknown}

\* ------------------------------------------------------------- state
VARIABLES
  locker_,            \* the thread holding the instance lock, or NoThread
  extension_intf_,    \* TRUE when the member holds an extension interface
  ext_live,           \* "none", or an extension interface was constructed and not
                      \* destroyed: "last" by the Init that ran last, "earlier" before it
  hw_info_intf_,      \* the member pointer: NULL or a provider handle
  hw_created,         \* how many Hardware Info Providers were created
  hw_destroys,        \* provider handle -> number of Destroy calls on it
  comp_mgr_,          \* the Composition Manager member: "uninit", "up" or "down"
  color_mgr,          \* the ColorManagerProxy static state
  hw_displays_info_,  \* the cached displays-status snapshot
  sigpipe_ign,        \* TRUE once SIGPIPE is ignored
  hw_state,           \* the hardware's present displays status
  objs,               \* display object slot -> record
  pc, op, arg,        \* per thread: position, operation, arguments
  error, ret,         \* per thread: the local `error` and the value returned
  display_base, iter, \* per thread: locals of the CreateDisplay overloads
  log,                \* per thread: what the running call has done so far
  last_init,          \* "ok" after a successful Init, "fail_compmgr" after an Init that
                      \* failed at comp_mgr_.Init, "down" at the start, after any other
                      \* failed Init and after Deinit
  gds_snap,           \* {the snapshot the last successful GetDisplaysStatus returned},
                      \* NoSnap when none did since the last Init queried the status
  stale_snap,         \* {the snapshot the core held when the status query of the last
                      \* Init failed}, NoSnap once a GetDisplaysStatus succeeded or
                      \* when that query succeeded
  calls               \* per thread: the calls counted by a client that counts them

coreVars == <<extension_intf_, hw_info_intf_, comp_mgr_, hw_displays_info_>>
envVars == <<ext_live, hw_created, hw_destroys, color_mgr, sigpipe_ign, hw_state>>
thrVars == <<pc, op, arg, error, ret, display_base, iter, log>>
histVars == <<last_init, gds_snap, stale_snap, calls>>
vars == <<locker_, coreVars, envVars, objs, thrVars, histVars>>

\* gds_snap, stale_snap, log.out_snap and log.seen hold at most one snapshot: {} for none.
NoSnap == {}
END == 0

FreeObj == [state |-> "free", held |-> FALSE, hw |-> NULL]

NoArg == [type |-> "-", id |-> 0, handler |-> FALSE, intf |-> FALSE, handle |-> NULL]

NoLog == [failed |-> "none", step_err |-> "-", created |-> NULL, destroyed |-> NULL,
          color |-> "skipped", status |-> "skipped", signal |-> FALSE,
          constructed |-> NULL, variant |-> "-", id |-> 0, written |-> FALSE,
          deleted |-> FALSE,
          disp_err |-> "-", dtype |-> "-", read |-> FALSE, del_state |-> "-",
          out_snap |-> NoSnap, comp_ext |-> "-", opened |-> FALSE,
          torn |-> <<>>, after |-> "-", seen |-> NoSnap]

Init ==
  /\ locker_ = NoThread
  /\ extension_intf_ = FALSE
  /\ ext_live = "none"
  /\ hw_info_intf_ = NULL
  /\ hw_created = 0
  /\ hw_destroys = [h \in 1..MaxProviders |-> 0]
  /\ comp_mgr_ = "uninit"
  /\ color_mgr = "uninit"
  /\ hw_displays_info_ = NoDisplays
  /\ sigpipe_ign = FALSE
  /\ hw_state \in Snapshots
  /\ objs = [i \in 1..MaxObjs |-> FreeObj]
  /\ pc = [t \in Threads |-> "idle"]
  /\ op = [t \in Threads |-> "-"]
  /\ arg = [t \in Threads |-> NoArg]
  /\ error = [t \in Threads |-> kErrorNone]
  /\ ret = [t \in Threads |-> "-"]
  /\ display_base = [t \in Threads |-> NULL]
  /\ iter = [t \in Threads |-> END]
  /\ log = [t \in Threads |-> NoLog]
  /\ last_init = "down"
  /\ gds_snap = NoSnap
  /\ stale_snap = NoSnap
  /\ calls = [t \in Threads |-> 0]

\* ------------------------------------------------------------- helpers
Min(a, b) == IF a < b THEN a ELSE b

Outcomes == {kErrorNone} \cup FailErrors

\* A faulty variant: a lock that never blocks.
LockNeverBlocks == TRUE

\* Locker::Lock returns only when no thread holds the lock.
LockFree == locker_ = NoThread

\* A provider handle that was created and never passed to Destroy.
ProviderLive(h) == h # NULL /\ hw_destroys[h] = 0

\* HWInfoInterface::Destroy(intf): the instance is released (counted per handle).
DestroyProvider(h) == [hw_destroys EXCEPT ![h] = Min(@ + 1, 2)]

\* HWInfoInterface::Create(&intf): the out pointer is written on success only.
HWInfoCreate(intf, fresh, e) == IF e = kErrorNone THEN fresh ELSE intf

Goto(t, p) == pc' = [pc EXCEPT ![t] = p]
Note(t, f, v) == [log EXCEPT ![t][f] = v]

\* `return e;` the value is in place, the scope (and the lock) ends at Unlock.
Return(t, e) ==
  /\ pc' = [pc EXCEPT ![t] = "ret"]
  /\ ret' = [ret EXCEPT ![t] = e]

\* The first statement of each operation, after SCOPE_LOCK.
Entry(o) ==
  CASE o = "Init" -> "Init_ext"
    [] o = "Deinit" -> "Deinit_color"
    [] o = "CreateDisplayType" -> "CreateT_check"
    [] o = "CreateDisplayId" -> "CreateI_check"
    [] o = "DestroyDisplay" -> "Destroy_check"
    [] o = "SetMaxBandwidthMode" -> "SetBw_call"
    [] o = "GetFirstDisplayInterfaceType" -> "FirstType_call"
    [] o = "GetDisplaysStatus" -> "Status_call"
    [] o = "GetMaxDisplaysSupported" -> "MaxDisp_call"
    [] o = "IsRotatorSupportedFormat" -> "Rotator_call"

PlainOps == {"Init", "Deinit", "SetMaxBandwidthMode", "GetFirstDisplayInterfaceType",
             "GetDisplaysStatus", "GetMaxDisplaysSupported", "IsRotatorSupportedFormat"}

\* <<event_handler, intf>> as passed: TRUE for a pointer that is not null.
Pointers == {<<TRUE, TRUE>>, <<FALSE, TRUE>>, <<TRUE, FALSE>>}

\* The calls a client can make: the operation and its arguments.
Requests ==
  [op : PlainOps, arg : {NoArg}]
  \cup [op : {"CreateDisplayType"},
        arg : {[NoArg EXCEPT !.type = ty, !.handler = p[1], !.intf = p[2]] :
                 ty \in DisplayTypes, p \in Pointers}]
  \cup [op : {"CreateDisplayId"},
        arg : {[NoArg EXCEPT !.id = d, !.handler = p[1], !.intf = p[2]] :
                 d \in DisplayIds, p \in Pointers}]
  \cup [op : {"DestroyDisplay"},
        arg : {[NoArg EXCEPT !.handle = x] :
                 x \in {NULL} \cup {s \in 1..MaxObjs : objs[s].held}}]

\* ------------------------------------------------------------- calling
\* A client thread calls an operation and reaches SCOPE_LOCK(locker_).
Call(t) ==
  /\ pc[t] = "idle"
  /\ Goto(t, "lock")
  /\ UNCHANGED <<locker_, coreVars, envVars, objs, op, arg, error, ret, display_base,
                 iter, log, histVars>>

\* The same step of a client that makes MaxCalls calls at most.
CountedCall(t) ==
  /\ pc[t] = "idle"
  /\ calls[t] < MaxCalls
  /\ calls' = [calls EXCEPT ![t] = @ + 1]
  /\ Goto(t, "lock")
  /\ UNCHANGED <<locker_, coreVars, envVars, objs, op, arg, error, ret, display_base,
                 iter, log, last_init, gds_snap, stale_snap>>

\* SCOPE_LOCK(locker_) returns: the lock was free and the thread holds it. The
\* operation and its arguments are the caller's own; nothing reads them before
\* the body runs, so the model fixes them here. A display handle passed to
\* DestroyDisplay leaves the client's hands with the call.
Acquire(t) ==
  /\ pc[t] = "lock"
  /\ LockFree
  /\ locker_' = t
  /\ \E r \in Requests :
       /\ op' = [op EXCEPT ![t] = r.op]
       /\ arg' = [arg EXCEPT ![t] = r.arg]
       /\ objs' = IF r.arg.handle # NULL
                  THEN [objs EXCEPT ![r.arg.handle].held = FALSE]
                  ELSE objs
       /\ Goto(t, Entry(r.op))
  /\ UNCHANGED <<coreVars, envVars, error, ret, display_base, iter, log, histVars>>

\* A faulty variant: the call is over but the lock is kept.
UnlockKeepsLock(t) ==
  /\ pc[t] = "ret"
  /\ Goto(t, "idle")
  /\ op' = [op EXCEPT ![t] = "-"]
  /\ arg' = [arg EXCEPT ![t] = NoArg]
  /\ error' = [error EXCEPT ![t] = kErrorNone]
  /\ ret' = [ret EXCEPT ![t] = "-"]
  /\ display_base' = [display_base EXCEPT ![t] = NULL]
  /\ iter' = [iter EXCEPT ![t] = END]
  /\ log' = [log EXCEPT ![t] = NoLog]
  /\ UNCHANGED <<locker_, coreVars, envVars, objs, histVars>>

\* The scope ends: the lock is released and the call is over.
Unlock(t) ==
  /\ pc[t] = "ret"
  /\ locker_' = NoThread
  /\ Goto(t, "idle")
  /\ op' = [op EXCEPT ![t] = "-"]
  /\ arg' = [arg EXCEPT ![t] = NoArg]
  /\ error' = [error EXCEPT ![t] = kErrorNone]
  /\ ret' = [ret EXCEPT ![t] = "-"]
  /\ display_base' = [display_base EXCEPT ![t] = NULL]
  /\ iter' = [iter EXCEPT ![t] = END]
  /\ log' = [log EXCEPT ![t] = NoLog]
  /\ UNCHANGED <<coreVars, envVars, objs, histVars>>

\* The hardware's displays change (hotplug).
Hotplug ==
  /\ \E s \in Snapshots \ {hw_state} : hw_state' = s
  /\ UNCHANGED <<locker_, coreVars, ext_live, hw_created, hw_destroys, color_mgr,
                 sigpipe_ign, objs, thrVars, histVars>>

\* ------------------------------------------------------------- Init
\* A faulty variant: a failed ColorManagerProxy::Init treated like a hard failure.
AfterColorInitFatal(e) == IF e = kErrorNone THEN "Init_status" ELSE "Init_cleanup"

\* After a failed ColorManagerProxy::Init the sequence goes on.
AfterColorInit(e) == "Init_status"

\* An Init begins: a live extension interface is from now on an earlier Init's.
Earlier(live) == IF live = "last" THEN "earlier" ELSE live

\* A faulty variant: a symbol that does not resolve is not looked at.
InitExtensionSymsIgnored(t) ==
  /\ pc[t] = "Init_ext"
  /\ \E opened \in BOOLEAN, syms \in BOOLEAN, e \in Outcomes :
       IF ~opened
       THEN /\ syms /\ e = kErrorNone
            /\ ext_live' = Earlier(ext_live)
            /\ Goto(t, "Init_hwinfo")
            /\ UNCHANGED <<extension_intf_, error, ret, log, last_init>>
       ELSE IF ~syms
       THEN /\ e = kErrorNone
            /\ ext_live' = Earlier(ext_live)
            /\ log' = [log EXCEPT ![t].failed = "ext_sym", ![t].opened = TRUE]
            /\ Goto(t, "Init_hwinfo")
            /\ UNCHANGED <<extension_intf_, error, ret, last_init>>
       ELSE IF e # kErrorNone
       THEN /\ error' = [error EXCEPT ![t] = e]
            /\ Return(t, e)
            /\ log' = [log EXCEPT ![t].failed = "ext_create", ![t].step_err = e,
                                  ![t].opened = TRUE]
            /\ last_init' = "down"
            /\ ext_live' = Earlier(ext_live)
            /\ UNCHANGED <<extension_intf_>>
       ELSE /\ error' = [error EXCEPT ![t] = e]
            /\ extension_intf_' = TRUE
            /\ ext_live' = "last"
            /\ log' = Note(t, "opened", TRUE)
            /\ Goto(t, "Init_hwinfo")
            /\ UNCHANGED <<ret, last_init>>
  /\ UNCHANGED <<locker_, hw_info_intf_, comp_mgr_, hw_displays_info_,
                 hw_created, hw_destroys, color_mgr, sigpipe_ign, hw_state, objs,
                 op, arg, display_base, iter, gds_snap, stale_snap, calls>>

\* Lines 53-69: the extension library, its two symbols, the construct call.
\* Open may fail (opened = FALSE), a symbol may be missing (syms = FALSE), and
\* create_extension_intf_ returns e and writes extension_intf_ on success.
InitExtension(t) ==
  /\ pc[t] = "Init_ext"
  /\ \E opened \in BOOLEAN, syms \in BOOLEAN, e \in Outcomes :
       IF ~opened
       THEN /\ syms /\ e = kErrorNone
            /\ ext_live' = Earlier(ext_live)
            /\ Goto(t, "Init_hwinfo")
            /\ UNCHANGED <<extension_intf_, error, ret, log, last_init>>
       ELSE IF ~syms
       THEN /\ e = kErrorNone
            /\ Return(t, kErrorUndefined)
            /\ log' = [log EXCEPT ![t].failed = "ext_sym", ![t].opened = TRUE]
            /\ last_init' = "down"
            /\ ext_live' = Earlier(ext_live)
            /\ UNCHANGED <<extension_intf_, error>>
       ELSE IF e # kErrorNone
       THEN /\ error' = [error EXCEPT ![t] = e]
            /\ Return(t, e)
            /\ log' = [log EXCEPT ![t].failed = "ext_create", ![t].step_err = e,
                                  ![t].opened = TRUE]
            /\ last_init' = "down"
            /\ ext_live' = Earlier(ext_live)
            /\ UNCHANGED <<extension_intf_>>
       ELSE /\ error' = [error EXCEPT ![t] = e]
            /\ extension_intf_' = TRUE
            /\ ext_live' = "last"
            /\ log' = Note(t, "opened", TRUE)
            /\ Goto(t, "Init_hwinfo")
            /\ UNCHANGED <<ret, last_init>>
  /\ UNCHANGED <<locker_, hw_info_intf_, comp_mgr_, hw_displays_info_,
                 hw_created, hw_destroys, color_mgr, sigpipe_ign, hw_state, objs,
                 op, arg, display_base, iter, gds_snap, stale_snap, calls>>

\* Lines 71-74: error = HWInfoInterface::Create(&hw_info_intf_).
InitHWInfo(t) ==
  /\ pc[t] = "Init_hwinfo"
  /\ \E e \in Outcomes :
       /\ e = kErrorNone => hw_created < MaxProviders
       /\ error' = [error EXCEPT ![t] = e]
       /\ hw_info_intf_' = HWInfoCreate(hw_info_intf_, hw_created + 1, e)
       /\ IF e = kErrorNone
          THEN /\ hw_created' = hw_created + 1
               /\ log' = Note(t, "created", hw_created + 1)
               /\ Goto(t, "Init_resource")
          ELSE /\ hw_created' = hw_created
               /\ log' = [log EXCEPT ![t].failed = "hwinfo", ![t].step_err = e]
               /\ Goto(t, "Init_cleanup")
  /\ UNCHANGED <<locker_, extension_intf_, comp_mgr_, hw_displays_info_,
                 ext_live, hw_destroys, color_mgr, sigpipe_ign, hw_state, objs,
                 op, arg, ret, display_base, iter, histVars>>

\* Lines 76-79: error = hw_info_intf_->GetHWResourceInfo(&hw_resource_).
InitResource(t) ==
  /\ pc[t] = "Init_resource"
  /\ \E e \in Outcomes :
       /\ error' = [error EXCEPT ![t] = e]
       /\ IF e = kErrorNone
          THEN /\ log' = log
               /\ Goto(t, "Init_compmgr")
          ELSE /\ log' = [log EXCEPT ![t].failed = "resource", ![t].step_err = e]
               /\ Goto(t, "Init_cleanup")
  /\ UNCHANGED <<locker_, extension_intf_, hw_info_intf_, comp_mgr_, hw_displays_info_,
                 envVars, objs, op, arg, ret, display_base, iter, histVars>>

\* Lines 81-85: error = comp_mgr_.Init(hw_resource_, extension_intf_, ...).
InitCompMgr(t) ==
  /\ pc[t] = "Init_compmgr"
  /\ \E e \in Outcomes :
       /\ error' = [error EXCEPT ![t] = e]
       /\ IF e = kErrorNone
          THEN /\ comp_mgr_' = "up"
               /\ log' = Note(t, "comp_ext", IF extension_intf_ THEN "intf" ELSE "null")
               /\ Goto(t, "Init_color")
          ELSE /\ comp_mgr_' = comp_mgr_
               /\ log' = [log EXCEPT ![t].failed = "compmgr", ![t].step_err = e,
                                     ![t].comp_ext = IF extension_intf_ THEN "intf"
                                                     ELSE "null"]
               /\ Goto(t, "Init_cleanup")
  /\ UNCHANGED <<locker_, extension_intf_, hw_info_intf_, hw_displays_info_,
                 envVars, objs, op, arg, ret, display_base, iter, histVars>>

\* Lines 87-91: error = ColorManagerProxy::Init(hw_resource_); a failure is logged.
InitColorMgr(t) ==
  /\ pc[t] = "Init_color"
  /\ \E e \in Outcomes :
       /\ error' = [error EXCEPT ![t] = e]
       /\ color_mgr' = IF e = kErrorNone THEN "up" ELSE color_mgr
       /\ log' = [log EXCEPT ![t].color = IF e = kErrorNone THEN "ok" ELSE "failed",
                             ![t].step_err = IF e = kErrorNone THEN @ ELSE e]
       /\ Goto(t, AfterColorInit(e))
  /\ UNCHANGED <<locker_, coreVars, ext_live, hw_created, hw_destroys, sigpipe_ign,
                 hw_state, objs, op, arg, ret, display_base, iter, histVars>>

\* A faulty variant: a failed displays-status query treated like a hard failure.
AfterStatusQueryFatal(e) == IF e = kErrorNone THEN "Init_signal" ELSE "Init_cleanup"

\* After a failed displays-status query the sequence goes on.
AfterStatusQuery(e) == "Init_signal"

\* Lines 93-97: error = hw_info_intf_->GetDisplaysStatus(&hw_displays_info_); a
\* failure is logged. The provider fills the member on success; on failure the
\* member keeps its content or is left empty.
InitDisplaysStatus(t) ==
  /\ pc[t] = "Init_status"
  /\ \E e \in Outcomes, cleared \in BOOLEAN :
       /\ e = kErrorNone => ~cleared
       /\ error' = [error EXCEPT ![t] = e]
       /\ hw_displays_info_' = IF e = kErrorNone THEN hw_state
                               ELSE IF cleared THEN NoDisplays ELSE hw_displays_info_
       /\ log' = Note(t, "status", IF e = kErrorNone THEN "ok" ELSE "failed")
       /\ stale_snap' = IF e = kErrorNone THEN NoSnap ELSE {hw_displays_info_'}
       /\ Goto(t, AfterStatusQuery(e))
  /\ gds_snap' = NoSnap
  /\ UNCHANGED <<locker_, extension_intf_, hw_info_intf_, comp_mgr_,
                 envVars, objs, op, arg, ret, display_base, iter, last_init, calls>>

\* Lines 99-100: signal(SIGPIPE, SIG_IGN); return kErrorNone.
InitSignal(t) ==
  /\ pc[t] = "Init_signal"
  /\ sigpipe_ign' = TRUE
  /\ log' = Note(t, "signal", TRUE)
  /\ Return(t, kErrorNone)
  /\ last_init' = "ok"
  /\ UNCHANGED <<locker_, coreVars, ext_live, hw_created, hw_destroys, color_mgr,
                 hw_state, objs, op, arg, error, display_base, iter, gds_snap, stale_snap, calls>>

\* Lines 102-107: CleanupOnError.
InitCleanup(t) ==
  /\ pc[t] = "Init_cleanup"
  /\ IF hw_info_intf_ # NULL
     THEN /\ hw_destroys' = DestroyProvider(hw_info_intf_)
          /\ log' = Note(t, "destroyed", hw_info_intf_)
     ELSE UNCHANGED <<hw_destroys, log>>
  /\ Return(t, error[t])
  /\ last_init' = IF log[t].failed = "compmgr" THEN "fail_compmgr" ELSE "down"
  /\ UNCHANGED <<locker_, coreVars, ext_live, hw_created, color_mgr, sigpipe_ign,
                 hw_state, objs, op, arg, error, display_base, iter, gds_snap, stale_snap, calls>>

\* ------------------------------------------------------------- Deinit
\* A faulty variant: comp_mgr_.Deinit() is left out.
AfterColorDeinitSkipsCompMgr == "Deinit_hwinfo"

\* Line 115 follows line 113.
AfterColorDeinit == "Deinit_compmgr"

\* Line 113: ColorManagerProxy::Deinit(). (log.after: what the last Init had
\* come to when this Deinit began.)
DeinitColorMgr(t) ==
  /\ pc[t] = "Deinit_color"
  /\ color_mgr' = "down"
  /\ log' = [log EXCEPT ![t].torn = Append(@, "color"), ![t].after = last_init]
  /\ Goto(t, AfterColorDeinit)
  /\ UNCHANGED <<locker_, coreVars, ext_live, hw_created, hw_destroys, sigpipe_ign,
                 hw_state, objs, op, arg, error, ret, display_base, iter, histVars>>

\* Line 115: comp_mgr_.Deinit().
DeinitCompMgr(t) ==
  /\ pc[t] = "Deinit_compmgr"
  /\ comp_mgr_' = "down"
  /\ log' = [log EXCEPT ![t].torn = Append(@, "compmgr")]
  /\ Goto(t, "Deinit_hwinfo")
  /\ UNCHANGED <<locker_, extension_intf_, hw_info_intf_, hw_displays_info_,
                 envVars, objs, op, arg, error, ret, display_base, iter, histVars>>

\* Lines 116-118: HWInfoInterface::Destroy(hw_info_intf_); return kErrorNone.
\* (Destroy of a null pointer releases nothing.)
DeinitHWInfo(t) ==
  /\ pc[t] = "Deinit_hwinfo"
  /\ hw_destroys' = IF hw_info_intf_ # NULL THEN DestroyProvider(hw_info_intf_)
                    ELSE hw_destroys
  /\ log' = [log EXCEPT ![t].torn = Append(@, "hwinfo"), ![t].destroyed = hw_info_intf_]
  /\ Return(t, kErrorNone)
  /\ last_init' = "down"
  /\ UNCHANGED <<locker_, coreVars, ext_live, hw_created, color_mgr, sigpipe_ign,
                 hw_state, objs, op, arg, error, display_base, iter, gds_snap, stale_snap, calls>>

\* ------------------------------------------------------------- display factory
\* A faulty variant: only the event handler is checked.
BadArgsHandlerOnly(a) == ~a.handler

\* `!event_handler || !intf`
BadArgs(a) == ~a.handler \/ ~a.intf

\* A faulty variant: the default case falls into the built-in display.
SelectVariantDefaultBuiltIn(type) == IF type \in Variants THEN type ELSE kBuiltIn

\* The switch on the display type: the class to construct, or "none" (default:).
SelectVariant(type) == IF type \in Variants THEN type ELSE "none"

\* A faulty variant: the id is looked up in the hardware's present status, not in the cache.
FindInHardware(info, display_id) == IF display_id \in DOMAIN hw_state THEN display_id ELSE END

\* hw_displays_info_.find(display_id): the position of the id, or END.
Find(info, display_id) == IF display_id \in DOMAIN info THEN display_id ELSE END

\* The slot `new` hands out: the first free one.
FreeSlots ==
  LET free == {s \in 1..MaxObjs : objs[s].state = "free"}
  IN  {s \in free : \A u \in free : s <= u}

\* `new DisplayX(...)`: NULL, or a fresh object bound to the collaborators.
Construct(t, variant, id) ==
  \E got \in {NULL} \cup FreeSlots :
    /\ display_base' = [display_base EXCEPT ![t] = got]
    /\ IF got = NULL
       THEN /\ Return(t, kErrorMemory)
            /\ objs' = objs
            /\ log' = log
       ELSE /\ objs' = [objs EXCEPT ![got] = [state |-> "constructed", held |-> FALSE,
                                             hw |-> hw_info_intf_]]
            /\ log' = [log EXCEPT ![t].constructed = got, ![t].variant = variant,
                                  ![t].id = id]
            /\ Goto(t, IF id = 0 THEN "CreateT_init" ELSE "CreateI_init")
            /\ ret' = ret

\* What a display object's Init() may return. The display classes take the
\* provider pointer as it is, destroyed or not, so no outcome is excluded.
DisplayInitResults == Outcomes

\* A faulty variant: the object whose Init failed is not deleted.
InitDisplayLeak(t) ==
  \E e \in DisplayInitResults :
    /\ error' = [error EXCEPT ![t] = e]
    /\ Return(t, e)
    /\ IF e # kErrorNone
       THEN /\ objs' = objs
            /\ log' = [log EXCEPT ![t].disp_err = e]
       ELSE /\ objs' = [objs EXCEPT ![display_base[t]].state = "inited",
                                    ![display_base[t]].held = TRUE]
            /\ log' = [log EXCEPT ![t].written = TRUE, ![t].disp_err = e]

\* error = display_base->Init(); on failure delete display_base and return the
\* error, else *intf = display_base and return kErrorNone.
InitDisplay(t) ==
  \E e \in DisplayInitResults :
    /\ error' = [error EXCEPT ![t] = e]
    /\ Return(t, e)
    /\ IF e # kErrorNone
       THEN /\ objs' = [objs EXCEPT ![display_base[t]] = FreeObj]
            /\ log' = [log EXCEPT ![t].deleted = TRUE, ![t].disp_err = e]
       ELSE /\ objs' = [objs EXCEPT ![display_base[t]].state = "inited",
                                    ![display_base[t]].held = TRUE]
            /\ log' = [log EXCEPT ![t].written = TRUE, ![t].disp_err = e]

\* Lines 125-127.
CreateTypeCheck(t) ==
  /\ pc[t] = "CreateT_check"
  /\ IF BadArgs(arg[t])
     THEN Return(t, kErrorParameters)
     ELSE Goto(t, "CreateT_construct") /\ ret' = ret
  /\ UNCHANGED <<locker_, coreVars, envVars, objs, op, arg, error, display_base, iter,
                 log, histVars>>

\* Lines 129-151.
CreateTypeConstruct(t) ==
  /\ pc[t] = "CreateT_construct"
  /\ IF SelectVariant(arg[t].type) = "none"
     THEN /\ Return(t, kErrorParameters)
          /\ UNCHANGED <<objs, display_base, log>>
     ELSE Construct(t, SelectVariant(arg[t].type), 0)
  /\ UNCHANGED <<locker_, coreVars, envVars, op, arg, error, iter, histVars>>

\* Lines 153-160.
CreateTypeInit(t) ==
  /\ pc[t] = "CreateT_init"
  /\ InitDisplay(t)
  /\ UNCHANGED <<locker_, coreVars, envVars, op, arg, display_base, iter, histVars>>

\* Lines 167-169.
CreateIdCheck(t) ==
  /\ pc[t] = "CreateI_check"
  /\ IF BadArgs(arg[t])
     THEN Return(t, kErrorParameters)
     ELSE Goto(t, "CreateI_lookup") /\ ret' = ret
  /\ UNCHANGED <<locker_, coreVars, envVars, objs, op, arg, error, display_base, iter,
                 log, histVars>>

\* Lines 171-176.
CreateIdLookup(t) ==
  /\ pc[t] = "CreateI_lookup"
  /\ iter' = [iter EXCEPT ![t] = Find(hw_displays_info_, arg[t].id)]
  /\ log' = [log EXCEPT ![t].read = TRUE, ![t].seen = {hw_displays_info_}]
  /\ IF Find(hw_displays_info_, arg[t].id) = END
     THEN Return(t, kErrorParameters)
     ELSE Goto(t, "CreateI_construct") /\ ret' = ret
  /\ UNCHANGED <<locker_, coreVars, envVars, objs, op, arg, error, display_base, histVars>>

\* Lines 178-201. iter->second.display_type is read from the map as it is now;
\* an iterator into a map that was assigned since is invalid and reads any type.
CreateIdConstruct(t) ==
  /\ pc[t] = "CreateI_construct"
  /\ \E display_type \in DisplayTypes :
       /\ iter[t] \in DOMAIN hw_displays_info_ => display_type = hw_displays_info_[iter[t]]
       /\ IF SelectVariant(display_type) = "none"
          THEN /\ Return(t, kErrorParameters)
               /\ log' = Note(t, "dtype", display_type)
               /\ UNCHANGED <<objs, display_base>>
          ELSE /\ \E got \in {NULL} \cup FreeSlots :
                    /\ display_base' = [display_base EXCEPT ![t] = got]
                    /\ IF got = NULL
                       THEN /\ Return(t, kErrorMemory)
                            /\ objs' = objs
                            /\ log' = Note(t, "dtype", display_type)
                       ELSE /\ objs' = [objs EXCEPT ![got] =
                                         [state |-> "constructed", held |-> FALSE,
                                          hw |-> hw_info_intf_]]
                            /\ log' = [log EXCEPT ![t].dtype = display_type,
                                                  ![t].constructed = got,
                                                  ![t].variant = SelectVariant(display_type),
                                                  ![t].id = arg[t].id]
                            /\ Goto(t, "CreateI_init")
                            /\ ret' = ret
  /\ UNCHANGED <<locker_, coreVars, envVars, op, arg, error, iter, histVars>>

\* Lines 203-211.
CreateIdInit(t) ==
  /\ pc[t] = "CreateI_init"
  /\ InitDisplay(t)
  /\ UNCHANGED <<locker_, coreVars, envVars, op, arg, display_base, iter, histVars>>

\* Lines 217-219.
DestroyCheck(t) ==
  /\ pc[t] = "Destroy_check"
  /\ IF arg[t].handle = NULL
     THEN Return(t, kErrorParameters) /\ display_base' = display_base
     ELSE /\ display_base' = [display_base EXCEPT ![t] = arg[t].handle]
          /\ Goto(t, "Destroy_deinit")
          /\ ret' = ret
  /\ UNCHANGED <<locker_, coreVars, envVars, objs, op, arg, error, iter, log, histVars>>

\* A faulty variant: the object is released without its Deinit().
DestroySkipDeinit(t) ==
  /\ pc[t] = "Destroy_deinit"
  /\ Goto(t, "Destroy_delete")
  /\ UNCHANGED <<locker_, coreVars, envVars, objs, op, arg, error, ret, display_base,
                 iter, log, histVars>>

\* Lines 221-222: display_base->Deinit().
DestroyDeinit(t) ==
  /\ pc[t] = "Destroy_deinit"
  /\ objs' = [objs EXCEPT ![display_base[t]].state = "deinited"]
  /\ Goto(t, "Destroy_delete")
  /\ UNCHANGED <<locker_, coreVars, envVars, op, arg, error, ret, display_base, iter,
                 log, histVars>>

\* Lines 223-225: delete display_base; return kErrorNone.
DestroyDelete(t) ==
  /\ pc[t] = "Destroy_delete"
  /\ log' = [log EXCEPT ![t].deleted = TRUE,
                        ![t].del_state = objs[display_base[t]].state]
  /\ objs' = [objs EXCEPT ![display_base[t]] = FreeObj]
  /\ Return(t, kErrorNone)
  /\ UNCHANGED <<locker_, coreVars, envVars, op, arg, error, display_base, iter,
                 histVars>>

\* ------------------------------------------------------------- queries
\* A query forwarded to a collaborator returns what the collaborator returns.
Forward(t, at, results) ==
  /\ pc[t] = at
  /\ \E r \in results : Return(t, r)
  /\ UNCHANGED <<locker_, coreVars, envVars, objs, op, arg, error, display_base, iter,
                 log, histVars>>

\* Lines 228-232.
SetMaxBandwidthMode(t) == Forward(t, "SetBw_call", Outcomes)

\* Lines 234-237.
GetFirstDisplayInterfaceType(t) == Forward(t, "FirstType_call", Outcomes)

\* Lines 249-252.
GetMaxDisplaysSupported(t) == Forward(t, "MaxDisp_call", Outcomes)

\* Lines 254-257.
IsRotatorSupportedFormat(t) == Forward(t, "Rotator_call", {"true", "false"})

\* What hw_info_intf_->GetDisplaysStatus can write to the caller's map on
\* success: the hardware's status from a live provider, anything from a
\* pointer that is NULL or was destroyed.
StatusAnswers == IF ProviderLive(hw_info_intf_) THEN {hw_state} ELSE Snapshots

\* A faulty variant: the caller's map is stored whatever the query returned.
StoreStatusAlways(e, cached, answer) == answer

\* A faulty variant: the refreshed status is never stored.
StoreStatusNever(e, cached, answer) == cached

\* Lines 242-245: the member takes the caller's map only when the query succeeded.
StoreStatus(e, cached, answer) == IF e = kErrorNone THEN answer ELSE cached

\* Lines 239-247.
GetDisplaysStatus(t) ==
  /\ pc[t] = "Status_call"
  /\ \E e \in Outcomes, s \in StatusAnswers :
       /\ error' = [error EXCEPT ![t] = e]
       /\ Return(t, e)
       /\ hw_displays_info_' = StoreStatus(e, hw_displays_info_, s)
       /\ IF e = kErrorNone
          THEN /\ log' = Note(t, "out_snap", {s})
               /\ gds_snap' = {s}
               /\ stale_snap' = NoSnap
          ELSE UNCHANGED <<log, gds_snap, stale_snap>>
  /\ UNCHANGED <<locker_, extension_intf_, hw_info_intf_, comp_mgr_,
                 envVars, objs, op, arg, display_base, iter, last_init, calls>>

\* ------------------------------------------------------------- specification
Next ==
  \/ \E t \in Threads : Call(t)
  \/ \E t \in Threads : Acquire(t)
  \/ \E t \in Threads : Unlock(t)
  \/ Hotplug
  \/ \E t \in Threads : InitExtension(t)
  \/ \E t \in Threads : InitHWInfo(t)
  \/ \E t \in Threads : InitResource(t)
  \/ \E t \in Threads : InitCompMgr(t)
  \/ \E t \in Threads : InitColorMgr(t)
  \/ \E t \in Threads : InitDisplaysStatus(t)
  \/ \E t \in Threads : InitSignal(t)
  \/ \E t \in Threads : InitCleanup(t)
  \/ \E t \in Threads : DeinitColorMgr(t)
  \/ \E t \in Threads : DeinitCompMgr(t)
  \/ \E t \in Threads : DeinitHWInfo(t)
  \/ \E t \in Threads : CreateTypeCheck(t)
  \/ \E t \in Threads : CreateTypeConstruct(t)
  \/ \E t \in Threads : CreateTypeInit(t)
  \/ \E t \in Threads : CreateIdCheck(t)
  \/ \E t \in Threads : CreateIdLookup(t)
  \/ \E t \in Threads : CreateIdConstruct(t)
  \/ \E t \in Threads : CreateIdInit(t)
  \/ \E t \in Threads : DestroyCheck(t)
  \/ \E t \in Threads : DestroyDeinit(t)
  \/ \E t \in Threads : DestroyDelete(t)
  \/ \E t \in Threads : SetMaxBandwidthMode(t)
  \/ \E t \in Threads : GetFirstDisplayInterfaceType(t)
  \/ \E t \in Threads : GetDisplaysStatus(t)
  \/ \E t \in Threads : GetMaxDisplaysSupported(t)
  \/ \E t \in Threads : IsRotatorSupportedFormat(t)

Spec == Init /\ [][Next]_vars

\* ------------------------------------------------------------- properties
Creates == {"CreateDisplayType", "CreateDisplayId"}

\* A thread is inside the body of an operation: past SCOPE_LOCK, scope not ended.
InBody(t) == pc[t] \notin {"idle", "lock"}

\* The call of t has returned with ret[t] (its scope is about to end).
Returned(t, o) == pc[t] = "ret" /\ op[t] = o

\* C1: at most one thread is ever inside the body of a public operation of the
\* instance, and the thread inside is the one holding locker_: a second
\* caller stays at SCOPE_LOCK until the first has left its scope.
C1_MutualExclusion ==
  /\ \A t, u \in Threads : (t # u /\ InBody(t)) => ~InBody(u)
  /\ \A t \in Threads : InBody(t) => locker_ = t

\* C1 witness: one thread is in the middle of a body while another waits at the lock.
C1_Witness ==
  \E t, u \in Threads :
    /\ t # u
    /\ pc[t] \in {"Init_compmgr", "CreateI_construct", "Destroy_delete"}
    /\ pc[u] = "lock"

\* C2 (as claimed): an Init that fails at provider creation, at the resource
\* query or at comp_mgr_.Init returns that step's error, passes a provider to
\* Destroy if and only if this Init created one, and runs no later step.
C2_FatalInitCleanup ==
  \A t \in Threads :
    (Returned(t, "Init") /\ log[t].failed \in {"hwinfo", "resource", "compmgr"}) =>
      /\ ret[t] = log[t].step_err
      /\ (log[t].destroyed # NULL) <=> (log[t].created # NULL)
      /\ log[t].color = "skipped"
      /\ log[t].status = "skipped"
      /\ ~log[t].signal

\* C3 (as claimed): an Init that fails at comp_mgr_.Init returns that error, and
\* while that is the last Init no CreateDisplay overload returns success.
C3_NoDisplayWhenUninitialized ==
  /\ \A t \in Threads :
       (Returned(t, "Init") /\ log[t].failed = "compmgr") => ret[t] = log[t].step_err
  /\ \A t \in Threads :
       (pc[t] = "ret" /\ op[t] \in Creates /\ last_init = "fail_compmgr") =>
         ret[t] # kErrorNone

\* C4: an Init whose ColorManagerProxy::Init failed (so every hard step
\* succeeded) still queries the displays status, ignores SIGPIPE and returns
\* kErrorNone.
C4_ColorFailureTolerated ==
  \A t \in Threads :
    (Returned(t, "Init") /\ log[t].color = "failed") =>
      /\ ret[t] = kErrorNone
      /\ log[t].status # "skipped"
      /\ log[t].signal
      /\ sigpipe_ign
      /\ last_init = "ok"

\* C4 witness: after a successful Init that runs without the color manager a
\* CreateDisplay with valid arguments has returned success.
C4_Witness ==
  \E t \in Threads :
    /\ pc[t] = "ret" /\ op[t] \in Creates /\ ret[t] = kErrorNone
    /\ ~BadArgs(arg[t])
    /\ last_init = "ok" /\ color_mgr = "uninit"

\* C5: a display object whose Init failed is deleted before CreateDisplay
\* returns, the call returns the object's error and writes no handle; so every
\* object that exists outside a running CreateDisplay is one whose Init
\* succeeded and whose handle went to the caller.
C5_NoHalfBuiltDisplay ==
  /\ \A t \in Threads :
       (pc[t] = "ret" /\ op[t] \in Creates /\ log[t].disp_err \in FailErrors) =>
         /\ log[t].deleted
         /\ objs[log[t].constructed].state = "free"
         /\ ret[t] = log[t].disp_err
         /\ ~log[t].written
  /\ \A s \in 1..MaxObjs :
       (/\ objs[s].state # "free"
        /\ ~\E t \in Threads : pc[t] \in {"CreateT_init", "CreateI_init"}
                               /\ display_base[t] = s) =>
         /\ objs[s].state \in {"inited", "deinited"}
         /\ \/ objs[s].held
            \/ \E t \in Threads : op[t] = "DestroyDisplay" /\ arg[t].handle = s

\* C5 witness: a CreateDisplay has returned the error of its object's Init.
C5_Witness ==
  \E t \in Threads :
    /\ pc[t] = "ret" /\ op[t] \in Creates
    /\ log[t].disp_err \in FailErrors /\ log[t].constructed # NULL

\* The positions of CreateDisplay(display_id, ...) after the id lookup.
PastLookup == {"CreateI_construct", "CreateI_init", "ret"}

\* C6: CreateDisplay(display_id, ...) with non-null arguments whose id is not
\* in the cached snapshot ends at the lookup with kErrorParameters and has
\* constructed nothing, whatever the hardware reports now.
C6_UnknownIdRejected ==
  \A t \in Threads :
    (/\ op[t] = "CreateDisplayId" /\ ~BadArgs(arg[t]) /\ pc[t] \in PastLookup
     /\ arg[t].id \notin DOMAIN hw_displays_info_) =>
      /\ pc[t] = "ret"
      /\ ret[t] = kErrorParameters
      /\ log[t].constructed = NULL
      /\ ~log[t].written

\* C6 witness: the call was rejected for an id the hardware has by now.
C6_Witness ==
  \E t \in Threads :
    /\ Returned(t, "CreateDisplayId") /\ ~BadArgs(arg[t])
    /\ arg[t].id \notin DOMAIN hw_displays_info_
    /\ arg[t].id \in DOMAIN hw_state
    /\ last_init = "ok"
    /\ ret[t] = kErrorParameters

\* How a CreateDisplay(display_id, ...) that got past the lookup may end when
\* the type of its id is one of the three variants: success, no memory for the
\* object, or the error of the object's own Init.
\* The snapshot in gds_snap.
Returned_snapshot == CHOOSE s \in gds_snap : TRUE

EndsAtConstructionOrInit(t) ==
  \/ ret[t] = kErrorNone /\ log[t].written
  \/ ret[t] = kErrorMemory /\ log[t].constructed = NULL
  \/ log[t].constructed # NULL /\ log[t].disp_err \in FailErrors /\ ret[t] = log[t].disp_err

\* C7 (as claimed): after a successful GetDisplaysStatus, CreateDisplay for an
\* id of the returned snapshot passes the lookup, constructs the variant the
\* snapshot records for the id, bound to the id, and can fail only at
\* construction or at the object's Init. (Stated for the calls with no Init
\* status query since the GetDisplaysStatus; the claim covers more.)
C7_ReturnedIdResolves ==
  \A t \in Threads :
    (/\ op[t] = "CreateDisplayId" /\ ~BadArgs(arg[t]) /\ pc[t] \in PastLookup
     /\ gds_snap # NoSnap
     /\ arg[t].id \in DOMAIN Returned_snapshot) =>
      /\ iter[t] = arg[t].id
      /\ log[t].constructed # NULL =>
           log[t].variant = Returned_snapshot[arg[t].id] /\ log[t].id = arg[t].id
      /\ pc[t] = "ret" => EndsAtConstructionOrInit(t)

\* C7 (amended): the same, as long as no Init has queried the displays status
\* since; and when the snapshot records a type outside the three variants for
\* the id, the call passes the lookup and ends with kErrorParameters, nothing
\* constructed.
C7_ReturnedIdResolvesAmended ==
  \A t \in Threads :
    (/\ op[t] = "CreateDisplayId" /\ ~BadArgs(arg[t]) /\ pc[t] \in PastLookup
     /\ gds_snap # NoSnap
     /\ arg[t].id \in DOMAIN Returned_snapshot) =>
      /\ iter[t] = arg[t].id
      /\ pc[t] # "CreateI_construct" => log[t].dtype = Returned_snapshot[arg[t].id]
      /\ log[t].constructed # NULL =>
           log[t].variant = Returned_snapshot[arg[t].id] /\ log[t].id = arg[t].id
      /\ pc[t] = "ret" =>
           IF Returned_snapshot[arg[t].id] \in Variants
           THEN EndsAtConstructionOrInit(t)
           ELSE ret[t] = kErrorParameters /\ log[t].constructed = NULL /\ ~log[t].written

\* C7 witness: a display was created for an id of the snapshot that the last
\* GetDisplaysStatus returned.
C7_Witness ==
  \E t \in Threads :
    /\ Returned(t, "CreateDisplayId") /\ ret[t] = kErrorNone
    /\ gds_snap # NoSnap /\ arg[t].id \in DOMAIN Returned_snapshot
    /\ log[t].variant = Returned_snapshot[arg[t].id] /\ log[t].id = arg[t].id

\* C8: the step of a CreateDisplay overload that finds event_handler or intf
\* null returns kErrorParameters and changes nothing else: no object, no
\* write through intf, the cached snapshot neither read nor changed.
C8_NullArgsRejected ==
  [][\A t \in Threads :
       (/\ pc[t] \in {"CreateT_check", "CreateI_check"}
        /\ ~(arg[t].handler /\ arg[t].intf)
        /\ pc'[t] # pc[t]) =>
         /\ pc'[t] = "ret"
         /\ ret'[t] = kErrorParameters
         /\ objs' = objs
         /\ hw_displays_info_' = hw_displays_info_
         /\ ~log'[t].read /\ ~log'[t].written /\ log'[t].constructed = NULL
         /\ display_base'[t] = NULL /\ iter'[t] = END]_vars

\* C8 witness: a CreateDisplay with a null intf has returned kErrorParameters.
C8_Witness ==
  \E t \in Threads :
    /\ pc[t] = "ret" /\ op[t] \in Creates
    /\ arg[t].handler /\ ~arg[t].intf
    /\ ret[t] = kErrorParameters

\* C9: CreateDisplay(type, ...) with a type outside BuiltIn, Pluggable and
\* Virtual, and CreateDisplay(display_id, ...) for an id cached with such a
\* type, return kErrorParameters without constructing an object or writing
\* the handle.
C9_SpuriousTypeRejected ==
  \A t \in Threads :
    (/\ ~BadArgs(arg[t])
     /\ \/ /\ op[t] = "CreateDisplayType"
           /\ pc[t] \in {"CreateT_init", "ret"}
           /\ arg[t].type \notin Variants
        \/ /\ op[t] = "CreateDisplayId"
           /\ pc[t] \in {"CreateI_init", "ret"}
           /\ arg[t].id \in DOMAIN hw_displays_info_
           /\ hw_displays_info_[arg[t].id] \notin Variants) =>
      /\ pc[t] = "ret"
      /\ ret[t] = kErrorParameters
      /\ log[t].constructed = NULL
      /\ ~log[t].written

\* C9 witness: CreateDisplay(display_id, ...) was rejected for the cached type.
C9_Witness ==
  \E t \in Threads :
    /\ Returned(t, "CreateDisplayId") /\ ~BadArgs(arg[t])
    /\ log[t].dtype = kDisplayTypeMax
    /\ ret[t] = kErrorParameters

\* C10: DestroyDisplay(NULL) returns kErrorParameters and tears nothing down;
\* DestroyDisplay of a handle the client holds returns kErrorNone after the
\* object's Deinit() and then its release.
C10_DestroyDisplay ==
  \A t \in Threads :
    Returned(t, "DestroyDisplay") =>
      IF arg[t].handle = NULL
      THEN /\ ret[t] = kErrorParameters
           /\ ~log[t].deleted /\ log[t].del_state = "-"
           /\ display_base[t] = NULL
      ELSE /\ ret[t] = kErrorNone
           /\ log[t].deleted /\ log[t].del_state = "deinited"
           /\ objs[arg[t].handle].state = "free"

\* C10 witness: a display created earlier has been destroyed.
C10_Witness ==
  \E t \in Threads :
    /\ Returned(t, "DestroyDisplay") /\ arg[t].handle # NULL
    /\ ret[t] = kErrorNone

\* C11: Deinit returns kErrorNone after ColorManagerProxy::Deinit(), then
\* comp_mgr_.Deinit(), then HWInfoInterface::Destroy(hw_info_intf_), in that
\* order: the Composition Manager is not deinitialized before the Color
\* Manager, nor the provider destroyed before the Composition Manager.
C11_DeinitOrder ==
  \A t \in Threads :
    op[t] = "Deinit" =>
      /\ pc[t] = "Deinit_color" => log[t].torn = <<>>
      /\ pc[t] = "Deinit_compmgr" => log[t].torn = <<"color">> /\ color_mgr = "down"
      /\ pc[t] = "Deinit_hwinfo" =>
           /\ log[t].torn = <<"color", "compmgr">>
           /\ color_mgr = "down" /\ comp_mgr_ = "down"
           /\ log[t].destroyed = NULL
      /\ pc[t] = "ret" =>
           /\ ret[t] = kErrorNone
           /\ log[t].torn = <<"color", "compmgr", "hwinfo">>
           /\ color_mgr = "down" /\ comp_mgr_ = "down"

\* C11 witness: a Deinit after a successful Init has destroyed the provider.
C11_Witness ==
  \E t \in Threads :
    /\ Returned(t, "Deinit") /\ log[t].after = "ok"
    /\ log[t].destroyed # NULL /\ hw_destroys[log[t].destroyed] = 1

\* The positions of Init after the extension step.
PastExtension == {"Init_hwinfo", "Init_resource", "Init_compmgr", "Init_color",
                  "Init_status", "Init_signal", "Init_cleanup", "ret"}

\* C12 (as claimed): an Init whose extension library did not open goes on with
\* no extension interface, hands the absent interface to comp_mgr_.Init, and
\* returns kErrorNone when provider creation, the resource query and
\* comp_mgr_.Init all succeed.
C12_MissingExtensionTolerated ==
  \A t \in Threads :
    (op[t] = "Init" /\ pc[t] \in PastExtension /\ ~log[t].opened) =>
      /\ ~extension_intf_
      /\ log[t].comp_ext \in {"-", "null"}
      /\ (pc[t] = "ret" /\ log[t].failed = "none") =>
           ret[t] = kErrorNone /\ log[t].comp_ext = "null"

\* C13: an Init whose extension library opened but lacks a symbol returns
\* kErrorUndefined, one whose create_extension_intf_ failed returns that
\* error; either way Init returns at once: no provider is created or
\* destroyed and no later step of Init runs.
C13_ExtensionFailureFatal ==
  \A t \in Threads :
    (op[t] = "Init" /\ log[t].failed \in {"ext_sym", "ext_create"}) =>
      /\ pc[t] = "ret"
      /\ log[t].opened
      /\ log[t].failed = "ext_sym" => ret[t] = kErrorUndefined
      /\ log[t].failed = "ext_create" =>
           ret[t] = log[t].step_err /\ ret[t] \in FailErrors
      /\ log[t].created = NULL /\ log[t].destroyed = NULL
      /\ log[t].comp_ext = "-"
      /\ log[t].color = "skipped" /\ log[t].status = "skipped" /\ ~log[t].signal
      /\ last_init = "down"

\* C13 witness: an Init has returned kErrorUndefined for a missing symbol,
\* with no provider ever created.
C13_Witness ==
  \E t \in Threads :
    /\ Returned(t, "Init") /\ log[t].failed = "ext_sym"
    /\ ret[t] = kErrorUndefined /\ hw_created = 0

\* C14 (as claimed, the lifetime part): when a Deinit that follows a successful
\* Init has returned, the extension interface that Init constructed is no
\* longer live.
C14_ExtensionEndsAtDeinit ==
  \A t \in Threads :
    (Returned(t, "Deinit") /\ log[t].after = "ok") => ext_live # "last"

\* C15: outside Init, a step changes the cached snapshot only when it is a
\* GetDisplaysStatus returning kErrorNone, and then the cache equals the
\* snapshot handed to the caller; a GetDisplaysStatus returning an error, both
\* CreateDisplay overloads, DestroyDisplay, Deinit and the other queries leave
\* the cache as it was.
C15_CacheFrame ==
  [][/\ locker_ = NoThread => hw_displays_info_' = hw_displays_info_
     /\ \A t \in Threads :
          (locker_ = t /\ op[t] # "Init") =>
            /\ hw_displays_info_' # hw_displays_info_ =>
                 pc[t] = "Status_call" /\ ret'[t] = kErrorNone
            /\ (pc[t] = "Status_call" /\ pc'[t] = "ret") =>
                 IF ret'[t] = kErrorNone
                 THEN log'[t].out_snap = {hw_displays_info_'}
                 ELSE hw_displays_info_' = hw_displays_info_]_vars

\* C15 witness: after a successful Init a GetDisplaysStatus has returned
\* kErrorNone and the cache is the snapshot it returned, with displays in it.
C15_Witness ==
  \E t \in Threads :
    /\ Returned(t, "GetDisplaysStatus") /\ ret[t] = kErrorNone
    /\ last_init = "ok"
    /\ log[t].out_snap = {hw_displays_info_}
    /\ hw_displays_info_ = PanelAndUnknown

\* C16: an Init whose displays-status query failed (every hard step having
\* succeeded) still ignores SIGPIPE and returns kErrorNone; from then until a
\* GetDisplaysStatus succeeds the core holds the snapshot it held at that
\* moment, and CreateDisplay(display_id, ...) for an id outside that
\* snapshot returns kErrorParameters with nothing constructed.
C16_StatusFailureTolerated ==
  /\ \A t \in Threads :
       (Returned(t, "Init") /\ log[t].status = "failed") =>
         /\ ret[t] = kErrorNone
         /\ log[t].signal /\ sigpipe_ign
         /\ last_init = "ok"
         /\ stale_snap # NoSnap
  /\ stale_snap # NoSnap => stale_snap = {hw_displays_info_}
  /\ \A t \in Threads :
       (/\ stale_snap # NoSnap
        /\ op[t] = "CreateDisplayId" /\ ~BadArgs(arg[t]) /\ pc[t] \in PastLookup
        /\ \A held \in stale_snap : arg[t].id \notin DOMAIN held) =>
         /\ pc[t] = "ret"
         /\ ret[t] = kErrorParameters
         /\ log[t].constructed = NULL
         /\ ~log[t].written

\* C16 witness: after an Init whose status query failed, a CreateDisplay for
\* an id the hardware has, but the held snapshot has not, was rejected.
C16_Witness ==
  \E t \in Threads :
    /\ Returned(t, "CreateDisplayId") /\ ~BadArgs(arg[t])
    /\ stale_snap # NoSnap /\ last_init = "ok"
    /\ arg[t].id \in DOMAIN hw_state
    /\ arg[t].id \notin DOMAIN hw_displays_info_
    /\ ret[t] = kErrorParameters

\* ------------------------------------------------------------- fairness
\* The statements a thread runs between SCOPE_LOCK and the end of the scope.
Body(t) ==
  \/ InitExtension(t) \/ InitHWInfo(t) \/ InitResource(t) \/ InitCompMgr(t)
  \/ InitColorMgr(t) \/ InitDisplaysStatus(t) \/ InitSignal(t) \/ InitCleanup(t)
  \/ DeinitColorMgr(t) \/ DeinitCompMgr(t) \/ DeinitHWInfo(t)
  \/ CreateTypeCheck(t) \/ CreateTypeConstruct(t) \/ CreateTypeInit(t)
  \/ CreateIdCheck(t) \/ CreateIdLookup(t) \/ CreateIdConstruct(t) \/ CreateIdInit(t)
  \/ DestroyCheck(t) \/ DestroyDeinit(t) \/ DestroyDelete(t)
  \/ SetMaxBandwidthMode(t) \/ GetFirstDisplayInterfaceType(t)
  \/ GetDisplaysStatus(t) \/ GetMaxDisplaysSupported(t) \/ IsRotatorSupportedFormat(t)

\* The calls of clients that make MaxCalls calls each at most, with the
\* hardware's displays as they were at the start.
CountedNext ==
  \/ \E t \in Threads : CountedCall(t)
  \/ \E t \in Threads : Acquire(t)
  \/ \E t \in Threads : Unlock(t)
  \/ \E t \in Threads : Body(t)

\* A thread inside a body keeps running (the collaborators return) and its
\* scope ends; a thread waiting at SCOPE_LOCK is woken when the lock is
\* released and no other thread is ahead of it (with finitely many calls none
\* is ahead for ever). Clients need not call.
FairSpec ==
  /\ Init
  /\ [][CountedNext]_vars
  /\ \A t \in Threads :
       /\ WF_vars(Body(t))
       /\ WF_vars(Unlock(t))
       /\ WF_vars(Acquire(t))

\* SCOPE_LOCK returns for a client that keeps the contract of Deinit: it calls
\* Deinit only when the last of the Init and Deinit calls was an Init that
\* returned kErrorNone.
ContractAcquire(t) ==
  /\ Acquire(t)
  /\ op'[t] = "Deinit" => last_init = "ok"

\* The calls of clients that keep the contract of Deinit.
ContractNext ==
  \/ \E t \in Threads : Call(t)
  \/ \E t \in Threads : ContractAcquire(t)
  \/ \E t \in Threads : Unlock(t)
  \/ \E t \in Threads : Body(t)
  \/ Hotplug

ContractSpec == Init /\ [][ContractNext]_vars

\* C17: the lock is held exactly while an operation is in progress (every
\* return position leads to the end of the scope, where it is released), so
\* a caller waiting at SCOPE_LOCK gets to run and every call that has begun
\* returns to its caller.
C17_LockAlwaysReleased ==
  /\ []((\A t \in Threads : ~InBody(t)) <=> locker_ = NoThread)
  /\ \A t \in Threads : (pc[t] # "idle") ~> (pc[t] = "idle")

\* C17 witness: an Init has taken an early error return while the other
\* thread waits at SCOPE_LOCK.
C17_Witness ==
  \E t, u \in Threads :
    /\ t # u
    /\ Returned(t, "Init") /\ log[t].failed \in {"ext_sym", "ext_create", "hwinfo"}
    /\ pc[u] = "lock"

\* C18: in CreateDisplay(display_id, ...) the id lookup and the type read see
\* one snapshot even with GetDisplaysStatus called from another thread: the
\* cache is not replaced between the two, and the type read (and the variant
\* constructed) is the one the snapshot of the lookup records for the id.
C18_OneSnapshotPerCreate ==
  \A t \in Threads :
    (op[t] = "CreateDisplayId" /\ log[t].read) =>
      /\ pc[t] = "CreateI_construct" =>
           log[t].seen = {hw_displays_info_} /\ iter[t] \in DOMAIN hw_displays_info_
      /\ \A found \in log[t].seen :
           /\ log[t].dtype # "-" =>
                arg[t].id \in DOMAIN found /\ log[t].dtype = found[arg[t].id]
           /\ log[t].constructed # NULL => log[t].variant = found[arg[t].id]

\* C18 witness: a CreateDisplay(display_id, ...) has found its id and the
\* other thread waits at SCOPE_LOCK with a refresh that would replace the
\* snapshot.
C18_Witness ==
  \E t, u \in Threads :
    /\ t # u
    /\ op[t] = "CreateDisplayId" /\ pc[t] = "CreateI_construct"
    /\ pc[u] = "lock"
    /\ ProviderLive(hw_info_intf_) /\ hw_state # hw_displays_info_

\* C19 (as claimed): with Deinit called only after a successful Init, no
\* provider handle is passed to HWInfoInterface::Destroy more than once,
\* whether by CleanupOnError or by Deinit.
C19_ProviderDestroyedOnce ==
  \A h \in 1..MaxProviders : hw_destroys[h] <= 1

\* A display object the client holds: returned by CreateDisplay, not yet
\* passed to DestroyDisplay.
Outstanding(s) == objs[s].state = "inited" /\ objs[s].held

\* C20 (as claimed): no step tears down a collaborator of a display object
\* the client holds: the provider the object was constructed with is not
\* destroyed and the Composition Manager is not deinitialized while the
\* object is outstanding.
C20_CollaboratorsOutliveDisplays ==
  [][\A s \in 1..MaxObjs :
       (Outstanding(s) /\ objs'[s] = objs[s]) =>
         /\ ProviderLive(objs[s].hw) => hw_destroys'[objs[s].hw] = 0
         /\ comp_mgr_ = "up" => comp_mgr_' = "up"]_vars

====
